---------------------------- MODULE Spec2Model ----------------------------
(***************************************************************************)
(* Trimmed serendipity elements (FIAT/Sminus.py).                          *)
(*                                                                         *)
(* One element instance is modelled through its life: construction         *)
(* (TrimmedSerendipityEdge / TrimmedSerendipityFace), then any sequence of *)
(* calls of its methods.  Symbolic expressions are polynomials with        *)
(* integer coefficients: every scalar entry the generators build is a      *)
(* product f(x)*g(y)*h(z) of univariate polynomials, kept as the record    *)
(* [k, fx, fy, fz] (sign/scale k, coefficient lists lowest power first).   *)
(***************************************************************************)
EXTENDS Integers, Sequences, FiniteSets, TLC

(***************************************************************************)
(* Bounds of the exploration.                                              *)
(***************************************************************************)
\* the largest degree an element is constructed with
MaxDegree == 6
\* the largest degree of an element tabulate is called on
MaxTabDegree == 1
\* the largest order tabulate is called with
MaxOrder == 1
\* the largest number of points tabulate is called with
MaxPts == 1

(***************************************************************************)
(* Python helpers.                                                         *)
(***************************************************************************)
\* A function with domain 1..n as an evaluated tuple: TLC otherwise keeps a function
\* constructor unevaluated under an application and recomputes it at every access.
Tuple(s) == s \o <<>>

\* range(a, b) as a sequence
Range(a, b) == Tuple([i \in 1..(b - a) |-> a + i - 1])

RECURSIVE ConcatRange(_, _, _)
\* ss[lo] \o ... \o ss[hi], halving so that the recursion stays shallow
ConcatRange(ss, lo, hi) ==
    IF lo > hi THEN <<>>
    ELSE IF lo = hi THEN ss[lo]
    ELSE LET half == (lo + hi) \div 2
         IN  ConcatRange(ss, lo, half) \o ConcatRange(ss, half + 1, hi)

\* the concatenation of a sequence of sequences (tuple/list "+" in a loop)
Concat(ss) == ConcatRange(Tuple(ss), 1, Len(ss))

RECURSIVE SumSeq(_)
SumSeq(s) == IF s = <<>> THEN 0 ELSE Head(s) + SumSeq(Tail(s))

RECURSIVE ProdSeq(_)
ProdSeq(s) == IF s = <<>> THEN 1 ELSE Head(s) * ProdSeq(Tail(s))

(***************************************************************************)
(* Univariate integer polynomials: <<c0, c1, ...>>, no trailing zero,      *)
(* <<>> is the zero polynomial.                                            *)
(***************************************************************************)
RECURSIVE PTrim(_)
PTrim(p) == IF p = <<>> THEN <<>>
            ELSE IF p[Len(p)] = 0 THEN PTrim(SubSeq(p, 1, Len(p) - 1)) ELSE p

PCoef(p, i) == IF i \in 1..Len(p) THEN p[i] ELSE 0

PAdd(p, q) ==
    LET n == IF Len(p) > Len(q) THEN Len(p) ELSE Len(q)
    IN  PTrim(Tuple([i \in 1..n |-> PCoef(p, i) + PCoef(q, i)]))

PScale(c, p) == PTrim(Tuple([i \in 1..Len(p) |-> c * p[i]]))

PMul(p, q) ==
    IF p = <<>> \/ q = <<>> THEN <<>>
    ELSE PTrim(Tuple([i \in 1..(Len(p) + Len(q) - 1) |->
                 SumSeq([j \in 1..Len(p) |-> p[j] * PCoef(q, i - j + 1)])]))

\* exact division of every coefficient by d
PDiv(p, d) == Tuple([i \in 1..Len(p) |-> p[i] \div d])

\* d/dv of a polynomial in v
PDeriv(p) == IF Len(p) <= 1 THEN <<>>
             ELSE PTrim(Tuple([i \in 1..(Len(p) - 1) |-> i * p[i + 1]]))

RECURSIVE PDerivN(_, _)
PDerivN(p, n) == IF n = 0 THEN p ELSE PDerivN(PDeriv(p), n - 1)

\* the value of p at the number v
PEval(p, v) == SumSeq([i \in 1..Len(p) |-> p[i] * ProdSeq([j \in 1..(i - 1) |-> v])])

(***************************************************************************)
(* sympy scalars: products f(x)*g(y)*h(z).                                 *)
(***************************************************************************)
Zero == [k |-> 0, fx |-> <<>>, fy |-> <<>>, fz |-> <<>>]

One == [k |-> 1, fx |-> <<1>>, fy |-> <<1>>, fz |-> <<1>>]

\* the polynomial p in the one variable v
InVar(v, p) ==
    IF p = <<>> THEN Zero
    ELSE [k  |-> 1,
          fx |-> IF v = "x" THEN p ELSE <<1>>,
          fy |-> IF v = "y" THEN p ELSE <<1>>,
          fz |-> IF v = "z" THEN p ELSE <<1>>]

\* a * b
Mul(a, b) ==
    IF a.k = 0 \/ b.k = 0 THEN Zero
    ELSE [k  |-> a.k * b.k,
          fx |-> PMul(a.fx, b.fx),
          fy |-> PMul(a.fy, b.fy),
          fz |-> PMul(a.fz, b.fz)]

RECURSIVE Prod(_)
\* the product of a sequence of scalars
Prod(es) == IF es = <<>> THEN One ELSE Mul(Head(es), Prod(Tail(es)))

\* -a
Neg(a) == [a EXCEPT !.k = 0 - a.k]

RECURSIVE LegStep(_, _, _, _, _)
\* Bonnet's recursion (i+1) P_{i+1} = (2i+1) t P_i - i P_{i-1}, t the polynomial m
LegStep(i, n, prev, cur, m) ==
    IF i = n THEN cur
    ELSE LegStep(i + 1, n, cur,
                 PDiv(PAdd(PScale(2 * i + 1, PMul(m, cur)), PScale(0 - i, prev)), i + 1),
                 m)

\* sympy.legendre(n, mid), mid an affine expression of one variable
leg(n, mid) == InVar(mid.var, IF n = 0 THEN <<1>> ELSE LegStep(1, n, <<1>>, mid.p, mid.p))


\* [F(i) for i in range(a, b)]
ListComp(a, b, F(_)) == Tuple([i \in 1..(b - a) |-> F(a + i - 1)])

(***************************************************************************)
(* Counting helpers of the allocator.                                      *)
(***************************************************************************)
\* int((n+1)*n/2)
\* triangular_number counting from one term too few: n(n-1)/2
triangular_number_short(n) == ((n - 1) * n) \div 2

triangular_number(n) == ((n + 1) * n) \div 2

\* int((degree+2)! / (2 * degree!))
choose_ijk_total(degree) ==
    LET top    == ProdSeq(Range(1, 2 + degree + 1))
        bottom == ProdSeq(Range(1, degree + 1))
    IN  top \div (2 * bottom)

(***************************************************************************)
(* Basis term generators, 2D.  A term is the tuple of its components;      *)
(* dx, dy, dz are functions on {0, 1} as the source's pairs.               *)
(***************************************************************************)
e_lambda_1_2d_part_one(deg, dx, dy, x_mid, y_mid) ==
    ListComp(0, deg, LAMBDA j : <<Zero, Mul(Neg(leg(j, y_mid)), dx[0])>>) \o
    ListComp(0, deg, LAMBDA j : <<Zero, Mul(Neg(leg(j, y_mid)), dx[1])>>) \o
    ListComp(0, deg, LAMBDA j : <<Mul(Neg(leg(j, x_mid)), dy[0]), Zero>>) \o
    ListComp(0, deg, LAMBDA j : <<Mul(Neg(leg(j, x_mid)), dy[1]), Zero>>)

determine_f_lambda_portions_2d(deg) ==
    IF deg < 2 THEN <<>> ELSE Range(2, deg)

f_lambda_1_2d_pieces(current_deg, dx, dy, x_mid, y_mid) ==
    IF current_deg = 2
    THEN << <<Prod(<<leg(0, x_mid), leg(0, y_mid), dy[0], dy[1]>>), Zero>>,
            <<Zero, Prod(<<leg(0, x_mid), leg(0, y_mid), dx[0], dx[1]>>)>> >>
    ELSE LET target_power == current_deg - 2
         IN  Concat(ListComp(0, target_power + 1, LAMBDA j :
                 LET k == target_power - j
                 IN  << <<Prod(<<leg(j, x_mid), leg(k, y_mid), dy[0], dy[1]>>), Zero>>,
                        <<Zero, Prod(<<leg(j, x_mid), leg(k, y_mid), dx[0], dx[1]>>)>> >>))

f_lambda_1_2d_trim(deg, dx, dy, x_mid, y_mid) ==
    LET DegsOfIteration == determine_f_lambda_portions_2d(deg)
    IN  Concat(Tuple([n \in 1..Len(DegsOfIteration) |->
                 f_lambda_1_2d_pieces(DegsOfIteration[n], dx, dy, x_mid, y_mid)]))

\* f_lambda_1_2d_tilde with two coupled terms for every k: the second is the first
\* with the roles of x and y exchanged
f_lambda_1_2d_tilde_pairs(deg, dx, dy, x_mid, y_mid) ==
    << <<Prod(<<leg(deg - 2, y_mid), dy[0], dy[1]>>), Zero>>,
       <<Zero, Prod(<<leg(deg - 2, x_mid), dx[0], dx[1]>>)>> >> \o
    Concat(ListComp(1, deg - 1, LAMBDA k :
        << <<Prod(<<leg(k, x_mid), leg(deg - k - 2, y_mid), dy[0], dy[1]>>),
             Prod(<<Neg(leg(k - 1, x_mid)), leg(deg - k - 1, y_mid), dx[0], dx[1]>>)>>,
           <<Prod(<<Neg(leg(k - 1, y_mid)), leg(deg - k - 1, x_mid), dy[0], dy[1]>>),
             Prod(<<leg(k, y_mid), leg(deg - k - 2, x_mid), dx[0], dx[1]>>)>> >>))

f_lambda_1_2d_tilde(deg, dx, dy, x_mid, y_mid) ==
    << <<Prod(<<leg(deg - 2, y_mid), dy[0], dy[1]>>), Zero>>,
       <<Zero, Prod(<<leg(deg - 2, x_mid), dx[0], dx[1]>>)>> >> \o
    ListComp(1, deg - 1, LAMBDA k :
        <<Prod(<<leg(k, x_mid), leg(deg - k - 2, y_mid), dy[0], dy[1]>>),
          Prod(<<Neg(leg(k - 1, x_mid)), leg(deg - k - 1, y_mid), dx[0], dx[1]>>)>>)

trimmed_f_lambda_2d(deg, dx, dy, x_mid, y_mid) ==
    LET FL  == f_lambda_1_2d_trim(deg, dx, dy, x_mid, y_mid)
        FLT == f_lambda_1_2d_tilde(deg, dx, dy, x_mid, y_mid)
    IN  FL \o FLT

(***************************************************************************)
(* Basis term generators, 3D.                                              *)
(***************************************************************************)
e_lambda_1_3d_piece(current_deg, dx, dy, dz, x_mid, y_mid, z_mid) ==
    << <<Zero, Zero, Prod(<<leg(current_deg, z_mid), dx[0], dy[1]>>)>>,
       <<Zero, Zero, Prod(<<leg(current_deg, z_mid), dx[1], dy[1]>>)>>,
       <<Zero, Zero, Prod(<<leg(current_deg, z_mid), dx[1], dy[0]>>)>>,
       <<Zero, Zero, Prod(<<leg(current_deg, z_mid), dx[0], dy[0]>>)>>,
       <<Zero, Prod(<<leg(current_deg, y_mid), dx[0], dz[1]>>), Zero>>,
       <<Zero, Prod(<<leg(current_deg, y_mid), dx[1], dz[1]>>), Zero>>,
       <<Zero, Prod(<<leg(current_deg, y_mid), dx[1], dz[0]>>), Zero>>,
       <<Zero, Prod(<<leg(current_deg, y_mid), dx[0], dz[0]>>), Zero>>,
       <<Prod(<<leg(current_deg, x_mid), dy[0], dz[0]>>), Zero, Zero>>,
       <<Prod(<<leg(current_deg, x_mid), dy[1], dz[0]>>), Zero, Zero>>,
       <<Prod(<<leg(current_deg, x_mid), dy[1], dz[1]>>), Zero, Zero>>,
       <<Prod(<<leg(current_deg, x_mid), dy[0], dz[1]>>), Zero, Zero>> >>

e_lambda_1_3d_trimmed(max_deg, dx, dy, dz, x_mid, y_mid, z_mid) ==
    Concat(ListComp(0, max_deg, LAMBDA i :
        e_lambda_1_3d_piece(i, dx, dy, dz, x_mid, y_mid, z_mid)))

determine_f_lambda_1_portions_3d(deg) ==
    IF deg < 2 THEN <<>> ELSE Range(2, deg)

\* the twelve terms the source writes for one pair (j, k)
f_lambda_1_3d_block(j, k, dx, dy, dz, x_mid, y_mid, z_mid) ==
    << <<Prod(<<leg(j, x_mid), leg(k, y_mid), dz[0], dy[0], dy[1]>>), Zero, Zero>>,
       <<Prod(<<leg(j, x_mid), leg(k, y_mid), dz[1], dy[0], dy[1]>>), Zero, Zero>>,
       <<Prod(<<leg(j, x_mid), leg(k, z_mid), dy[0], dz[0], dz[1]>>), Zero, Zero>>,
       <<Prod(<<leg(j, x_mid), leg(k, z_mid), dy[1], dz[0], dz[1]>>), Zero, Zero>>,
       <<Zero, Prod(<<leg(j, y_mid), leg(k, x_mid), dz[0], dx[0], dx[1]>>), Zero>>,
       <<Zero, Prod(<<leg(j, y_mid), leg(k, x_mid), dz[1], dx[0], dx[1]>>), Zero>>,
       <<Zero, Prod(<<leg(j, y_mid), leg(k, z_mid), dx[0], dz[0], dz[1]>>), Zero>>,
       <<Zero, Prod(<<leg(j, y_mid), leg(k, z_mid), dx[1], dz[0], dz[1]>>), Zero>>,
       <<Zero, Zero, Prod(<<leg(j, z_mid), leg(k, y_mid), dy[0], dx[0], dx[1]>>)>>,
       <<Zero, Zero, Prod(<<leg(j, z_mid), leg(k, y_mid), dy[1], dx[0], dx[1]>>)>>,
       <<Zero, Zero, Prod(<<leg(j, z_mid), leg(k, x_mid), dx[0], dy[0], dy[1]>>)>>,
       <<Zero, Zero, Prod(<<leg(j, z_mid), leg(k, x_mid), dx[1], dy[0], dy[1]>>)>> >>

f_lambda_1_3d_pieces(current_deg, dx, dy, dz, x_mid, y_mid, z_mid) ==
    IF current_deg = 2
    THEN f_lambda_1_3d_block(0, 0, dx, dy, dz, x_mid, y_mid, z_mid)
    ELSE LET target_power == current_deg - 2
         IN  Concat(ListComp(0, target_power + 1, LAMBDA j :
                 f_lambda_1_3d_block(j, target_power - j, dx, dy, dz, x_mid, y_mid, z_mid)))

f_lambda_1_3d_tilde(max_deg, dx, dy, dz, x_mid, y_mid, z_mid) ==
    << <<Prod(<<leg(max_deg - 2, y_mid), dz[0], dy[0], dy[1]>>), Zero, Zero>>,
       <<Prod(<<leg(max_deg - 2, y_mid), dz[1], dy[0], dy[1]>>), Zero, Zero>>,
       <<Prod(<<leg(max_deg - 2, z_mid), dy[0], dz[0], dz[1]>>), Zero, Zero>>,
       <<Prod(<<leg(max_deg - 2, z_mid), dy[1], dz[0], dz[1]>>), Zero, Zero>>,
       <<Zero, Prod(<<leg(max_deg - 2, x_mid), dz[0], dx[0], dx[1]>>), Zero>>,
       <<Zero, Prod(<<leg(max_deg - 2, x_mid), dz[1], dx[0], dx[1]>>), Zero>>,
       <<Zero, Prod(<<leg(max_deg - 2, z_mid), dx[0], dz[0], dz[1]>>), Zero>>,
       <<Zero, Prod(<<leg(max_deg - 2, z_mid), dx[1], dz[0], dz[1]>>), Zero>>,
       <<Zero, Zero, Prod(<<leg(max_deg - 2, x_mid), dy[0], dx[0], dx[1]>>)>>,
       <<Zero, Zero, Prod(<<leg(max_deg - 2, x_mid), dy[1], dx[0], dx[1]>>)>>,
       <<Zero, Zero, Prod(<<leg(max_deg - 2, y_mid), dx[0], dy[0], dy[1]>>)>>,
       <<Zero, Zero, Prod(<<leg(max_deg - 2, y_mid), dx[1], dy[0], dy[1]>>)>> >> \o
    Concat(ListComp(1, max_deg - 1, LAMBDA j :
        Concat(ListComp(0, 2, LAMBDA k :
            << <<Prod(<<leg(j, x_mid), leg(max_deg - j - 2, y_mid), dz[k], dy[0], dy[1]>>),
                 Prod(<<Neg(leg(j - 1, x_mid)), leg(max_deg - j - 1, y_mid), dz[k], dx[0], dx[1]>>),
                 Zero>>,
               <<Prod(<<leg(j, x_mid), leg(max_deg - j - 2, z_mid), dy[k], dz[0], dz[1]>>),
                 Zero,
                 Prod(<<Neg(leg(j - 1, x_mid)), leg(max_deg - j - 1, z_mid), dy[k], dx[0], dx[1]>>)>>,
               <<Zero,
                 Prod(<<leg(j, y_mid), leg(max_deg - j - 2, z_mid), dx[k], dz[0], dz[1]>>),
                 Prod(<<Neg(leg(j - 1, y_mid)), leg(max_deg - j - 1, z_mid), dx[k], dy[0], dy[1]>>)>> >>))))

f_lambda_1_3d_trim(deg, dx, dy, dz, x_mid, y_mid, z_mid) ==
    LET DegsOfIteration == determine_f_lambda_1_portions_3d(deg)
    IN  Concat(Tuple([n \in 1..Len(DegsOfIteration) |->
                 f_lambda_1_3d_pieces(DegsOfIteration[n], dx, dy, dz, x_mid, y_mid, z_mid)]))

trimmed_f_lambda_3d(deg, dx, dy, dz, x_mid, y_mid, z_mid) ==
    LET FL  == f_lambda_1_3d_trim(deg, dx, dy, dz, x_mid, y_mid, z_mid)
        FLT == f_lambda_1_3d_tilde(deg, dx, dy, dz, x_mid, y_mid, z_mid)
    IN  FL \o FLT

determine_I_lambda_1_portions_3d(deg) ==
    IF deg < 4 THEN <<>>
    ELSE LET Degs == Concat(ListComp(0, deg - 3, LAMBDA a :
                        Concat(ListComp(0, deg - 3 - a, LAMBDA b :
                            ListComp(0, deg - 3 - a - b, LAMBDA c : <<a, b, c>>)))))
         IN  SelectSeq(Degs, LAMBDA degs : degs[1] + degs[2] + degs[3] = deg - 4)

I_lambda_1_3d(deg, dx, dy, dz, x_mid, y_mid, z_mid) ==
    LET DegsOfIteration == determine_I_lambda_1_portions_3d(deg)
    IN  Concat(Tuple([n \in 1..Len(DegsOfIteration) |->
            LET Degs == DegsOfIteration[n]
                L    == Prod(<<leg(Degs[1], x_mid), leg(Degs[2], y_mid), leg(Degs[3], z_mid)>>)
            IN  << <<Prod(<<L, dy[0], dy[1], dz[0], dz[1]>>), Zero, Zero>>,
                   <<Zero, Prod(<<L, dx[0], dx[1], dz[0], dz[1]>>), Zero>>,
                   <<Zero, Zero, Prod(<<L, dy[0], dy[1], dy[0], dy[1]>>)>> >>]))

I_lambda_1_tilde_3d(deg, dx, dy, dz, x_mid, y_mid, z_mid) ==
    << <<Prod(<<leg(deg - 4, y_mid), dy[0], dy[1], dz[0], dz[1]>>), Zero, Zero>>,
       <<Prod(<<leg(deg - 4, z_mid), dy[0], dy[1], dz[0], dz[1]>>), Zero, Zero>>,
       <<Zero, Prod(<<leg(deg - 4, x_mid), dx[0], dx[1], dz[0], dz[1]>>), Zero>>,
       <<Zero, Prod(<<leg(deg - 4, z_mid), dx[0], dx[1], dz[0], dz[1]>>), Zero>>,
       <<Zero, Zero, Prod(<<leg(deg - 4, x_mid), dx[0], dx[1], dy[0], dy[1]>>)>>,
       <<Zero, Zero, Prod(<<leg(deg - 4, y_mid), dx[0], dx[1], dy[0], dy[1]>>)>> >> \o
    Concat(ListComp(1, deg - 3, LAMBDA j :
        << <<Prod(<<leg(j, x_mid), leg(deg - j - 4, y_mid), dy[0], dy[1], dz[0], dz[1]>>),
             Prod(<<Neg(leg(j - 1, x_mid)), leg(deg - j - 3, y_mid), dx[0], dx[1], dz[0], dz[1]>>),
             Zero>>,
           <<Prod(<<leg(j, x_mid), leg(deg - j - 4, z_mid), dy[0], dy[1], dz[0], dz[1]>>),
             Zero,
             Prod(<<Neg(leg(j - 1, x_mid)), leg(deg - j - 3, z_mid), dx[0], dx[1], dy[0], dy[1]>>)>> >> \o
        (IF deg > 5
         THEN << <<Zero,
                   Prod(<<leg(j, y_mid), leg(deg - j - 4, z_mid), dx[0], dx[1], dz[0], dz[1]>>),
                   Prod(<<Neg(leg(j - 1, y_mid)), leg(deg - j - 3, z_mid), dx[0], dx[1], dy[0], dy[1]>>)>> >>
         ELSE <<>>)))

(***************************************************************************)
(* Reference cells (FIAT.reference_element).  A cell is named by a string; *)
(* its dimension is a tuple (one entry per tensor factor), its topology    *)
(* the sequence, sorted by dimension key, of <<key, number of entities>>.  *)
(***************************************************************************)
Cells == {"interval", "quadrilateral", "interval*interval", "hexahedron",
          "quadrilateral*interval", "quadrilateral*quadrilateral"}

get_dimension(ref_el) ==
    CASE ref_el = "interval"                    -> <<1>>
      [] ref_el = "quadrilateral"               -> <<2>>
      [] ref_el = "interval*interval"           -> <<1, 1>>
      [] ref_el = "hexahedron"                  -> <<3>>
      [] ref_el = "quadrilateral*interval"      -> <<2, 1>>
      [] ref_el = "quadrilateral*quadrilateral" -> <<2, 2>>

get_topology(ref_el) ==
    CASE ref_el = "interval"      -> << <<(<<0>>), 2>>, <<(<<1>>), 1>> >>
      [] ref_el = "quadrilateral" -> << <<(<<0>>), 4>>, <<(<<1>>), 4>>, <<(<<2>>), 1>> >>
      [] ref_el = "interval*interval" ->
            << <<(<<0, 0>>), 4>>, <<(<<0, 1>>), 2>>, <<(<<1, 0>>), 2>>, <<(<<1, 1>>), 1>> >>
      [] ref_el = "hexahedron" ->
            << <<(<<0>>), 8>>, <<(<<1>>), 12>>, <<(<<2>>), 6>>, <<(<<3>>), 1>> >>
      [] ref_el = "quadrilateral*interval" ->
            << <<(<<0, 0>>), 8>>, <<(<<0, 1>>), 4>>, <<(<<1, 0>>), 8>>,
               <<(<<1, 1>>), 4>>, <<(<<2, 0>>), 2>>, <<(<<2, 1>>), 1>> >>
      [] ref_el = "quadrilateral*quadrilateral" ->
            << <<(<<0, 0>>), 16>>, <<(<<0, 1>>), 16>>, <<(<<0, 2>>), 4>>,
               <<(<<1, 0>>), 16>>, <<(<<1, 1>>), 16>>, <<(<<1, 2>>), 4>>,
               <<(<<2, 0>>), 4>>, <<(<<2, 1>>), 4>>, <<(<<2, 2>>), 1>> >>

\* the flattened cell: the interval itself, or the UFC hypercube of the summed dimension
flatten_reference_cube(ref_el) ==
    LET d == SumSeq(get_dimension(ref_el))
    IN  CASE d = 1 -> "interval"
          [] d = 2 -> "quadrilateral"
          [] d = 3 -> "hexahedron"
          [] OTHER -> "quadrilateral*quadrilateral"

get_spatial_dimension(el) == SumSeq(get_dimension(el))

\* the entities of a cell: pairs <<dimension key, entity id>>
Entities(el) ==
    LET top == get_topology(el)
    IN  UNION {{<<top[n][1], e>> : e \in 0..(top[n][2] - 1)} : n \in 1..Len(top)}

\* flat_topology[d] of a flattened cell, sorted: the entity ids of dimension d
FlatIds(flat_el, d) ==
    LET top == get_topology(flat_el)
    IN  Range(0, top[d + 1][2])

\* vertex number i (from 0) of the UFC hypercube of dimension n: the bits of i
CubeVertex(n, i) == Tuple([c \in 1..n |-> (i \div ProdSeq([j \in 1..(n - c) |-> 2])) % 2])

get_vertices(flat_el) ==
    LET n == get_spatial_dimension(flat_el)
    IN  Tuple([i \in 1..ProdSeq([j \in 1..n |-> 2]) |-> CubeVertex(n, i - 1)])

\* compute_unflattening_map: the entities of flat dimension d, in the order of the
\* sorted topology, numbered from 0
UnflatSeq(ref_el, d) ==
    LET top == get_topology(ref_el)
    IN  Concat(Tuple([n \in 1..Len(top) |->
                 IF SumSeq(top[n][1]) = d
                 THEN Tuple([i \in 1..top[n][2] |-> <<top[n][1], i - 1>>])
                 ELSE <<>>]))

compute_unflattening_map(ref_el) ==
    LET dom == UNION {{<<d, i - 1>> : i \in 1..Len(UnflatSeq(ref_el, d))} :
                        d \in 0..SumSeq(get_dimension(ref_el))}
    IN  [de \in dom |-> UnflatSeq(ref_el, de[1])[de[2] + 1]]

(***************************************************************************)
(* Exceptions.                                                             *)
(***************************************************************************)
NoExc == [type |-> "None", msg |-> ""]

Raise(type, msg) == [type |-> type, msg |-> msg]

(***************************************************************************)
(* sympy.Array of a list of equal-length tuples: a shape and the flat list *)
(* of its scalars (int 0 sympified to the zero scalar).                    *)
(***************************************************************************)
Array(rows) == [shape |-> <<Len(rows), Len(rows[1])>>, flat |-> Concat(rows)]

\* len(A): the number of scalars of the array
ArrayLen(A) == Len(A.flat)

\* A[:, c], c counted from 0
Column(A, c) == Tuple([j \in 1..A.shape[1] |-> A.flat[(j - 1) * A.shape[2] + c + 1]])

\* A[j] as a tuple, j counted from 0
Row(A, j) == Tuple([c \in 1..A.shape[2] |-> A.flat[j * A.shape[2] + c]])

(***************************************************************************)
(* TrimmedSerendipity.__init__: the allocator and the remapper.            *)
(***************************************************************************)
RECURSIVE AllocLoop(_, _, _, _, _)
\* for j in js: entity_ids[d][j] = list(range(cur, cur + count)); cur = cur + count
AllocLoop(js, d, count, cur, ids) ==
    IF js = <<>> THEN [ids |-> ids, cur |-> cur]
    ELSE AllocLoop(Tail(js), d, count, cur + count,
                   [ids EXCEPT ![<<d, Head(js)>>] = Range(cur, cur + count)])

\* entity_ids over the flattened topology, keyed <<dimension, entity>> (lines 56-103)
allocate(flat_el, dim, degree) ==
    LET empty == [de \in {<<SumSeq(ue[1]), ue[2]>> : ue \in Entities(flat_el)} |-> <<>>]
        edges == AllocLoop(FlatIds(flat_el, 1), 1, degree, 0, empty)
    IN  IF dim = 2
        THEN LET nface == 2 * triangular_number(degree - 2) + degree
             IN  [ids |-> IF degree >= 2
                          THEN [edges.ids EXCEPT ![<<2, 0>>] = Range(edges.cur, edges.cur + nface)]
                          ELSE edges.ids,
                  cur |-> edges.cur + nface]
        ELSE LET faces ==
                   IF degree >= 2
                   THEN IF degree < 4
                        THEN AllocLoop(FlatIds(flat_el, 2), 2,
                                       2 * triangular_number(degree - 2) + degree,
                                       edges.cur, edges.ids)
                        ELSE AllocLoop(FlatIds(flat_el, 2), 2, 3 * degree - 4,
                                       edges.cur, edges.ids)
                   ELSE edges
                 cur == faces.cur
                 interior_ids ==
                   SumSeq(ListComp(0, degree - 4, LAMBDA i : 3 * choose_ijk_total(i)))
                 interior ==
                   IF degree >= 4
                   THEN IF degree = 4 THEN Range(cur, cur + 6)
                        ELSE IF degree = 5 THEN Range(cur, cur + 11)
                        ELSE Range(cur, cur + 6 + (degree - 4) * 3 + interior_ids)
                   ELSE Range(cur, cur)
             IN  [ids |-> [faces.ids EXCEPT ![<<3, 0>>] = interior], cur |-> cur]

\* lines 115-129: the same DOF lists keyed by the entities of the original cell
unflatten(ref_el, flat_ids) ==
    LET unflattening_map == compute_unflattening_map(ref_el)
    IN  [ue \in Entities(ref_el) |->
            LET de == CHOOSE k \in DOMAIN unflattening_map : unflattening_map[k] = ue
            IN  flat_ids[de]]

\* The base constructor: the fields it sets, the exception it raises, the steps it takes.
TrimmedSerendipity_init(ref_el, degree, mapping) ==
    IF degree < 1
    THEN [exc |-> Raise("Exception", "Trimmed serendipity elements only valid for k >= 1"),
          steps |-> <<>>, entity_ids |-> <<>>]
    ELSE LET flat_el == flatten_reference_cube(ref_el)
             dim     == get_spatial_dimension(flat_el)
             s1      == <<"flatten_reference_cube", "get_spatial_dimension">>
         IN  IF dim # 2 /\ dim # 3
             THEN [exc |-> Raise("Exception",
                            "Trimmed serendipity elements only valid for dimensions 2 and 3"),
                   steps |-> s1, entity_ids |-> <<>>]
             ELSE [exc |-> NoExc,
                   steps |-> s1 \o <<"get_topology", "allocate", "make_entity_closure_ids",
                                     "FiniteElement.__init__", "compute_unflattening_map",
                                     "unflatten">>,
                   entity_ids |-> unflatten(ref_el, allocate(flat_el, dim, degree).ids)]

(***************************************************************************)
(* Blending factors and midpoint substitutes (lines 465-471, 517-523).     *)
(* axis counts from 0; the divisions by the cell width are exact on the    *)
(* UFC hypercubes flatten_reference_cube returns.                          *)
(***************************************************************************)
blending(verts, axis, var) ==
    LET hi == verts[Len(verts)][axis + 1]
        lo == verts[1][axis + 1]
    IN  [i \in {0, 1} |->
            IF i = 0 THEN InVar(var, PDiv(<<hi, 0 - 1>>, hi - lo))
                     ELSE InVar(var, PDiv(<<0 - lo, 1>>, hi - lo))]

midpoint(verts, axis, var) ==
    [var |-> var, p |-> <<0 - (verts[Len(verts)][axis + 1] + verts[1][axis + 1]), 2>>]

\* a constructor that raised: no field of the instance was set
Failed(exc, steps) ==
    [exc |-> exc, steps |-> steps, basis |-> <<>>, entity_ids |-> <<>>,
     degree |-> 0, mapping |-> "", nterms |-> <<>>, families |-> <<>>]

(***************************************************************************)
(* TrimmedSerendipityEdge.__init__                                         *)
(***************************************************************************)
\* lines 457-500: everything after the degree check
TrimmedSerendipityEdge_body(ref_el, degree) ==
    LET flat_el == flatten_reference_cube(ref_el)
        dim     == get_spatial_dimension(flat_el)
        s1      == <<"flatten_reference_cube", "get_spatial_dimension">>
    IN  IF dim # 2 /\ dim # 3
        THEN Failed(Raise("Exception",
               "Trimmed Serendipity_k edge elements only valid for dimensions 2 and 3"), s1)
        ELSE
        LET verts == get_vertices(flat_el)
            dx    == blending(verts, 0, "x")
            dy    == blending(verts, 1, "y")
            x_mid == midpoint(verts, 0, "x")
            y_mid == midpoint(verts, 1, "y")
            \* try: verts[-1][2] ... except IndexError: dz = None
            dz    == IF dim = 3 THEN blending(verts, 2, "z") ELSE <<>>
            z_mid == IF dim = 3 THEN midpoint(verts, 2, "z") ELSE <<>>
            EL == IF dim = 2
                  THEN e_lambda_1_2d_part_one(degree, dx, dy, x_mid, y_mid)
                  ELSE e_lambda_1_3d_trimmed(degree, dx, dy, dz, x_mid, y_mid, z_mid)
            FL == IF degree >= 2
                  THEN IF dim = 2
                       THEN trimmed_f_lambda_2d(degree, dx, dy, x_mid, y_mid)
                       ELSE trimmed_f_lambda_3d(degree, dx, dy, dz, x_mid, y_mid, z_mid)
                  ELSE <<>>
            IL == IF degree >= 4
                  THEN I_lambda_1_3d(degree, dx, dy, dz, x_mid, y_mid, z_mid) \o
                       I_lambda_1_tilde_3d(degree, dx, dy, dz, x_mid, y_mid, z_mid)
                  ELSE <<>>
            Sminus_list == IF dim = 3 THEN (EL \o FL) \o IL ELSE EL \o FL
            s2   == s1 \o <<"get_vertices", "blending", "EL", "FL", "IL", "Array">>
            base == TrimmedSerendipity_init(ref_el, degree, "covariant piola")
        IN  IF base.exc # NoExc
            THEN Failed(base.exc, s2 \o base.steps)
            ELSE [exc        |-> NoExc,
                  steps      |-> s2 \o base.steps,
                  basis      |-> (<<0, 0>> :> Array(Sminus_list)),
                  entity_ids |-> base.entity_ids,
                  degree     |-> degree,
                  mapping    |-> "covariant piola",
                  nterms     |-> <<Len(EL), Len(FL), IF dim = 3 THEN Len(IL) ELSE 0>>,
                  families   |->
                    [FLT |-> IF dim = 2 /\ degree >= 2
                            THEN f_lambda_1_2d_tilde(degree, dx, dy, x_mid, y_mid)
                            ELSE <<>>,
                     IL  |-> IF dim = 3 /\ degree >= 4
                            THEN I_lambda_1_3d(degree, dx, dy, dz, x_mid, y_mid, z_mid)
                            ELSE <<>>]]

\* TrimmedSerendipityEdge.__init__ without its own degree check (lines 454-455 dropped)
TrimmedSerendipityEdge_init_unchecked(ref_el, degree) ==
    TrimmedSerendipityEdge_body(ref_el, degree)

TrimmedSerendipityEdge_init(ref_el, degree) ==
    IF degree < 1
    THEN Failed(Raise("Exception",
                      "Trimmed Serendipity_k edge elements only valid for k >= 1"), <<>>)
    ELSE TrimmedSerendipityEdge_body(ref_el, degree)

(***************************************************************************)
(* TrimmedSerendipityFace.__init__                                         *)
(***************************************************************************)
\* lines 509-550: everything after the degree check
TrimmedSerendipityFace_body(ref_el, degree) ==
    LET flat_el == flatten_reference_cube(ref_el)
        dim     == get_spatial_dimension(flat_el)
        s1      == <<"flatten_reference_cube", "get_spatial_dimension">>
    IN  IF dim # 2 /\ dim # 3
        THEN Failed(Raise("Exception",
               "Trimmed serendipity face elements only valid for dimensions 2 and 3"), s1)
        ELSE
        LET verts == get_vertices(flat_el)
            dx    == blending(verts, 0, "x")
            dy    == blending(verts, 1, "y")
            x_mid == midpoint(verts, 0, "x")
            y_mid == midpoint(verts, 1, "y")
            dz    == IF dim = 3 THEN blending(verts, 2, "z") ELSE <<>>
            z_mid == IF dim = 3 THEN midpoint(verts, 2, "z") ELSE <<>>
            EL == IF dim = 2
                  THEN e_lambda_1_2d_part_one(degree, dx, dy, x_mid, y_mid)
                  ELSE e_lambda_1_3d_trimmed(degree, dx, dy, dz, x_mid, y_mid, z_mid)
            FL == IF degree >= 2
                  THEN IF dim = 2
                       THEN trimmed_f_lambda_2d(degree, dx, dy, x_mid, y_mid)
                       ELSE trimmed_f_lambda_3d(degree, dx, dy, dz, x_mid, y_mid, z_mid)
                  ELSE <<>>
            \* IL is assigned only under "if dim == 3" (lines 539-545)
            IL_bound == dim = 3
            IL == IF degree >= 4
                  THEN I_lambda_1_3d(degree, dx, dy, dz, x_mid, y_mid, z_mid) \o
                       I_lambda_1_tilde_3d(degree, dx, dy, dz, x_mid, y_mid, z_mid)
                  ELSE <<>>
            s2 == s1 \o <<"get_vertices", "blending", "EL", "FL">>
        IN  IF ~IL_bound
            \* line 547 reads the local IL, which was never assigned
            THEN Failed(Raise("UnboundLocalError",
                              "local variable 'IL' referenced before assignment"), s2)
            ELSE
            LET bdmcf_list == (EL \o FL) \o IL
                rotated    == Tuple([n \in 1..Len(bdmcf_list) |->
                                 <<Neg(bdmcf_list[n][2]), bdmcf_list[n][1]>>])
                s3   == s2 \o <<"IL", "Array">>
                base == TrimmedSerendipity_init(ref_el, degree, "contravariant piola")
            IN  IF base.exc # NoExc
                THEN Failed(base.exc, s3 \o base.steps)
                ELSE [exc        |-> NoExc,
                      steps      |-> s3 \o base.steps,
                      basis      |-> (<<0, 0>> :> Array(rotated)),
                      entity_ids |-> base.entity_ids,
                      degree     |-> degree,
                      mapping    |-> "contravariant piola",
                      nterms     |-> <<Len(EL), Len(FL), Len(IL)>>,
                      families   |->
                        [FLT |-> IF dim = 2 /\ degree >= 2
                                THEN f_lambda_1_2d_tilde(degree, dx, dy, x_mid, y_mid)
                                ELSE <<>>,
                         IL  |-> IF dim = 3 /\ degree >= 4
                                THEN I_lambda_1_3d(degree, dx, dy, dz, x_mid, y_mid, z_mid)
                                ELSE <<>>]]

TrimmedSerendipityFace_init(ref_el, degree) ==
    IF degree < 1
    THEN Failed(Raise("Exception",
                      "Trimmed serendipity face elements only valid for k >= 1"), <<>>)
    ELSE TrimmedSerendipityFace_body(ref_el, degree)

(***************************************************************************)
(* Methods of a constructed element.                                       *)
(***************************************************************************)
get_nodal_basis ==
    Raise("NotImplementedError", "get_nodal_basis not implemented for trimmed serendipity")

get_dual_set ==
    Raise("NotImplementedError", "get_dual_set is not implemented for trimmed serendipity")

\* get_coeffs raising the plain Exception of the configuration errors
get_coeffs_generic ==
    Raise("Exception", "get_coeffs not implemented for trimmed serendipity")

get_coeffs ==
    Raise("NotImplementedError", "get_coeffs not implemented for trimmed serendipity")

dmats == Raise("NotImplementedError", "")

get_num_members == Raise("NotImplementedError", "")

value_shape == <<2>>

\* space_dimension without the halving
space_dimension_whole(self_basis) == ArrayLen(self_basis[<<0, 0>>])

\* int(len(self.basis[(0, 0)])/2)
space_dimension(self_basis) == ArrayLen(self_basis[<<0, 0>>]) \div 2

(***************************************************************************)
(* tabulate                                                                *)
(***************************************************************************)
RECURSIVE mis(_, _)
\* FIAT.polynomial_set.mis: the m-tuples of non-negative integers that sum to n
mis(m, n) ==
    IF m = 1 THEN << <<n>> >>
    ELSE IF n = 0 THEN << Tuple([i \in 1..m |-> 0]) >>
    ELSE Concat(ListComp(0, n + 1, LAMBDA i :
            LET rest == mis(m - 1, i)
            IN  Tuple([r \in 1..Len(rest) |-> <<n - i>> \o rest[r]])))

\* ref_el.get_entity_transform(entity_dim, entity_id) applied to the point pt: the
\* identity for the cell itself; for edge e of the UFC quadrilateral the edge's
\* parametrisation from its first vertex to its second
get_entity_transform(ref_el, entity_dim, entity_id, pt) ==
    IF entity_dim = get_dimension(ref_el) THEN pt
    ELSE LET ends  == << <<0, 1>>, <<2, 3>>, <<0, 2>>, <<1, 3>> >>[entity_id + 1]
             verts == get_vertices(ref_el)
             va    == verts[ends[1] + 1]
             vb    == verts[ends[2] + 1]
         IN  Tuple([c \in 1..Len(va) |-> va[c] + pt[1] * (vb[c] - va[c])])

\* diff(e, (x, a), (y, b)) of one scalar
DiffScalar(e, alpha) ==
    IF e.k = 0 THEN Zero
    ELSE LET gx == PDerivN(e.fx, alpha[1])
             gy == PDerivN(e.fy, alpha[2])
         IN  IF gx = <<>> \/ gy = <<>> THEN Zero
             ELSE [k |-> e.k, fx |-> gx, fy |-> gy, fz |-> e.fz]

\* diff(A, *zip(variables, alpha)): entry by entry, the shape kept
diff(A, alpha) ==
    [shape |-> A.shape,
     flat  |-> Tuple([n \in 1..Len(A.flat) |-> DiffScalar(A.flat[n], alpha)])]

\* f.evalf(subs={x: pt[0], y: pt[1]}) is a number: z does not survive
IsNumber(f, pt) ==
    \/ f.k = 0
    \/ Len(f.fz) <= 1
    \/ PEval(f.fx, pt[1]) * PEval(f.fy, pt[2]) = 0

\* the number f.evalf(subs=...) is, when it is one
EvalNumber(f, pt) ==
    IF f.k = 0 THEN 0
    ELSE LET v == f.k * PEval(f.fx, pt[1]) * PEval(f.fy, pt[2])
         IN  IF v = 0 THEN 0 ELSE v * f.fz[1]

\* lines 164-170: the array T, or the TypeError of storing a symbolic value in it
evaluate(polynomials, points) ==
    LET col0 == Column(polynomials, 0)
        col1 == Column(polynomials, 1)
        ok   == \A i \in 1..Len(points) :
                    /\ \A j \in 1..Len(col0) : IsNumber(col0[j], points[i])
                    /\ \A j \in 1..Len(col1) : IsNumber(col1[j], points[i])
    IN  IF ~ok
        THEN [exc |-> Raise("TypeError", "Cannot convert expression to float"), T |-> <<>>]
        ELSE [exc |-> NoExc,
              T   |-> [shape |-> <<Len(col0), 2, Len(points)>>,
                       val   |-> Tuple([j \in 1..Len(col0) |->
                                   << Tuple([i \in 1..Len(points) |-> EvalNumber(col0[j], points[i])]),
                                      Tuple([i \in 1..Len(points) |-> EvalNumber(col1[j], points[i])]) >>])]]

\* lines 159-163 without the cache lookup: always differentiate and store
cached_or_diff_always(self_basis, alpha) ==
    LET polynomials == diff(self_basis[<<0, 0>>], alpha)
    IN  [polynomials |-> polynomials,
         basis       |-> (alpha :> polynomials) @@ self_basis,
         diffed      |-> TRUE]

\* lines 159-163 with the miss branch caching the derivative but evaluating the
\* order-0 basis
cached_or_diff_stale(self_basis, alpha) ==
    IF alpha \in DOMAIN self_basis
    THEN [polynomials |-> self_basis[alpha], basis |-> self_basis, diffed |-> FALSE]
    ELSE [polynomials |-> self_basis[<<0, 0>>],
          basis       |-> (alpha :> diff(self_basis[<<0, 0>>], alpha)) @@ self_basis,
          diffed      |-> TRUE]

\* lines 159-163: the cached derivative, or a new one, cached
cached_or_diff(self_basis, alpha) ==
    IF alpha \in DOMAIN self_basis
    THEN [polynomials |-> self_basis[alpha], basis |-> self_basis, diffed |-> FALSE]
    ELSE LET polynomials == diff(self_basis[<<0, 0>>], alpha)
         IN  [polynomials |-> polynomials,
              basis       |-> (alpha :> polynomials) @@ self_basis,
              diffed      |-> TRUE]

RECURSIVE TabLoop(_, _, _)
\* the loop over the multi-indices alphas; st = [basis, phivals, exc, diffs]
TabLoop(alphas, points, st) ==
    IF alphas = <<>> \/ st.exc # NoExc THEN st
    ELSE LET alpha == Head(alphas)
             c     == cached_or_diff(st.basis, alpha)
             e     == evaluate(c.polynomials, points)
         IN  TabLoop(Tail(alphas), points,
                     [basis   |-> c.basis,
                      phivals |-> IF e.exc = NoExc THEN (alpha :> e.T) @@ st.phivals
                                  ELSE st.phivals,
                      exc     |-> e.exc,
                      diffs   |-> IF c.diffed THEN Append(st.diffs, alpha) ELSE st.diffs])

\* the default entity of tabulate (lines 147-148); None is <<>>
default_entity(ref_el, entity) ==
    IF entity = <<>> THEN <<get_dimension(ref_el), 0>> ELSE entity

\* tabulate(self, order, points, entity): the element's new cache, the mapping
\* returned or the exception raised, the transformed points, the derivatives taken
tabulate(self_basis, self_ref_el, order, points, entity) ==
    LET ent     == default_entity(self_ref_el, entity)
        tpoints == Tuple([i \in 1..Len(points) |->
                       get_entity_transform(self_ref_el, ent[1], ent[2], points[i])])
        alphas  == Concat(ListComp(0, order + 1, LAMBDA o : mis(2, o)))
        st      == TabLoop(alphas, tpoints,
                           [basis |-> self_basis, phivals |-> <<>>, exc |-> NoExc,
                            diffs |-> <<>>])
    IN  [basis |-> st.basis, phivals |-> st.phivals, exc |-> st.exc,
         diffs |-> st.diffs, tpoints |-> tpoints]

(***************************************************************************)
(* The state: one element instance and the last call made on it.           *)
(***************************************************************************)
VARIABLES
    phase,       \* "new" (nothing constructed), "failed" (the constructor raised), "live"
    kind,        \* the class of the instance: "Edge" or "Face"
    ref_el,      \* self.ref_el
    basis,       \* self.basis: multi-index -> Array, the derivative cache
    entity_ids,  \* self.entity_ids: <<dimension key, entity>> -> DOF list
    _degree,     \* self._degree
    mapping,     \* the mapping tag handed to FiniteElement.__init__
    call,        \* the last call: [op, args]
    ret,         \* what it returned (<<>> when it raised)
    exc,         \* the exception it raised, or NoExc
    steps,       \* the collaborator calls and building steps the constructor made
    nterms,      \* the numbers of edge, face and interior terms the constructor generated
    families,    \* what f_lambda_1_2d_tilde (FLT) and I_lambda_1_3d (IL) returned to it
    tpoints,     \* the points of the last tabulate call after the entity transform
    ndiff        \* multi-index -> the number of times tabulate differentiated for it

vars == <<phase, kind, ref_el, basis, entity_ids, _degree, mapping, call, ret, exc,
          steps, nterms, families, tpoints, ndiff>>

element == <<phase, kind, ref_el, basis, entity_ids, _degree, mapping, steps, nterms,
            families>>

MultiIndices == {<<a, b>> : a \in 0..MaxOrder, b \in 0..MaxOrder} \cap
                {al \in (0..MaxOrder) \X (0..MaxOrder) : al[1] + al[2] <= MaxOrder}

Init ==
    /\ phase = "new"
    /\ kind = ""
    /\ ref_el = ""
    /\ basis = <<>>
    /\ entity_ids = <<>>
    /\ _degree = 0
    /\ mapping = ""
    /\ call = [op |-> "", args |-> <<>>]
    /\ ret = <<>>
    /\ exc = NoExc
    /\ steps = <<>>
    /\ nterms = <<>>
    /\ families = <<>>
    /\ tpoints = <<>>
    /\ ndiff = [al \in MultiIndices |-> 0]

\* the instance a constructor call leaves behind
Constructed(k, cell, degree, r) ==
    /\ phase' = IF r.exc = NoExc THEN "live" ELSE "failed"
    /\ kind' = IF r.exc = NoExc THEN k ELSE ""
    /\ ref_el' = IF r.exc = NoExc THEN cell ELSE ""
    /\ basis' = r.basis
    /\ entity_ids' = r.entity_ids
    /\ _degree' = r.degree
    /\ mapping' = r.mapping
    /\ call' = [op |-> k, args |-> <<cell, degree>>]
    /\ ret' = <<>>
    /\ exc' = r.exc
    /\ steps' = r.steps
    /\ nterms' = r.nterms
    /\ families' = r.families
    /\ UNCHANGED <<tpoints, ndiff>>

ConstructEdge ==
    /\ phase = "new"
    /\ \E cell \in Cells, degree \in 0..MaxDegree :
          Constructed("Edge", cell, degree, TrimmedSerendipityEdge_init(cell, degree))

ConstructFace ==
    /\ phase = "new"
    /\ \E cell \in Cells, degree \in 0..MaxDegree :
          Constructed("Face", cell, degree, TrimmedSerendipityFace_init(cell, degree))

\* a method that returns value and touches nothing
Returns(op, value) ==
    /\ call' = [op |-> op, args |-> <<>>]
    /\ ret' = value
    /\ exc' = NoExc
    /\ UNCHANGED <<element, tpoints, ndiff>>

Degree ==
    /\ phase = "live"
    /\ Returns("degree", _degree)

EntityDofs ==
    /\ phase = "live"
    /\ Returns("entity_dofs", entity_ids)

ValueShape ==
    /\ phase = "live"
    /\ Returns("value_shape", value_shape)

SpaceDimension ==
    /\ phase = "live"
    /\ Returns("space_dimension", space_dimension(basis))

GetNodalBasis ==
    /\ phase = "live"
    /\ call' = [op |-> "get_nodal_basis", args |-> <<>>]
    /\ ret' = <<>>
    /\ exc' = get_nodal_basis
    /\ UNCHANGED <<element, tpoints, ndiff>>

GetDualSet ==
    /\ phase = "live"
    /\ call' = [op |-> "get_dual_set", args |-> <<>>]
    /\ ret' = <<>>
    /\ exc' = get_dual_set
    /\ UNCHANGED <<element, tpoints, ndiff>>

GetCoeffs ==
    /\ phase = "live"
    /\ call' = [op |-> "get_coeffs", args |-> <<>>]
    /\ ret' = <<>>
    /\ exc' = get_coeffs
    /\ UNCHANGED <<element, tpoints, ndiff>>

Dmats ==
    /\ phase = "live"
    /\ call' = [op |-> "dmats", args |-> <<>>]
    /\ ret' = <<>>
    /\ exc' = dmats
    /\ UNCHANGED <<element, tpoints, ndiff>>

GetNumMembers ==
    /\ phase = "live"
    /\ call' = [op |-> "get_num_members", args |-> <<>>]
    /\ ret' = <<>>
    /\ exc' = get_num_members
    /\ UNCHANGED <<element, tpoints, ndiff>>

\* the entities tabulate is called with: None (<<>>), the cell, the edges of the quadrilateral
TabEntities(cell) ==
    {<<>>, <<get_dimension(cell), 0>>} \cup
    (IF cell = "quadrilateral" THEN {<<(<<1>>), e>> : e \in 0..3} ELSE {})

\* the point lists tabulate is called with: the first n vertices of the unit cube of
\* the entity's dimension, n <= MaxPts
PointLists(cell, entity) ==
    LET n == IF default_entity(cell, entity)[1] = get_dimension(cell)
             THEN SumSeq(get_dimension(cell)) ELSE 1
        V == get_vertices(IF n = 1 THEN "interval"
                          ELSE IF n = 2 THEN "quadrilateral" ELSE "hexahedron")
    IN  {SubSeq(V, 1, m) : m \in 0..(IF MaxPts < Len(V) THEN MaxPts ELSE Len(V))}

Count(seq, a) == Cardinality({i \in 1..Len(seq) : seq[i] = a})

Tabulate ==
    /\ phase = "live"
    /\ _degree <= MaxTabDegree
    /\ \E order \in 0..MaxOrder, entity \in TabEntities(ref_el) :
         \E points \in PointLists(ref_el, entity) :
            LET r == tabulate(basis, ref_el, order, points, entity)
            IN  /\ basis' = r.basis
                /\ call' = [op |-> "tabulate", args |-> <<order, points, entity>>]
                /\ ret' = IF r.exc = NoExc THEN r.phivals ELSE <<>>
                /\ exc' = r.exc
                /\ tpoints' = r.tpoints
                /\ ndiff' = [al \in MultiIndices |-> ndiff[al] + Count(r.diffs, al)]
                /\ UNCHANGED <<phase, kind, ref_el, entity_ids, _degree, mapping, steps,
                               nterms, families>>

Next ==
    \/ ConstructEdge
    \/ ConstructFace
    \/ Degree
    \/ EntityDofs
    \/ ValueShape
    \/ SpaceDimension
    \/ GetNodalBasis
    \/ GetDualSet
    \/ GetCoeffs
    \/ Dmats
    \/ GetNumMembers
    \/ Tabulate

Spec == Init /\ [][Next]_vars

(***************************************************************************)
(* What the claims speak of, read off the state.                           *)
(***************************************************************************)
\* the flattened spatial dimension of the live element's cell
FlatDim == SumSeq(get_dimension(ref_el))

\* the DOF list of entity e of dimension d of the flattened cell
FlatDofs(d, e) == entity_ids[compute_unflattening_map(ref_el)[<<d, e>>]]

\* the places <<entity, position>> of the entity-DOF map
DofPlaces == UNION {{<<ue, n>> : n \in 1..Len(entity_ids[ue])} : ue \in DOMAIN entity_ids}

\* the number of DOFs the entities of dimension d of the flattened cell hold together
ClassDofs(d) ==
    Cardinality({pl \in DofPlaces :
                    \E e \in 0..(Len(FlatIds(flatten_reference_cube(ref_el), d)) - 1) :
                        pl[1] = compute_unflattening_map(ref_el)[<<d, e>>]})

\* the number of entries (rows) of the assembled order-0 basis
BasisEntries == basis[<<0, 0>>].shape[1]

\* C1 (as stated): on every constructed element the DOF lists of entity_dofs()
\* partition 0 .. space_dimension()-1: no index outside the range, every index of
\* the range at exactly one place.
C1_DofsPartitionSpaceDimension ==
    phase = "live" =>
        LET N == space_dimension(basis)
        IN  /\ \A pl \in DofPlaces : entity_ids[pl[1]][pl[2]] \in 0..(N - 1)
            /\ \A i \in 0..(N - 1) :
                   Cardinality({pl \in DofPlaces : entity_ids[pl[1]][pl[2]] = i}) = 1

\* C2 (as stated): on every constructed element the allocator's DOF counts equal the
\* numbers of generated terms class by class (edges, faces, in 3D the interior), and
\* the total number of DOFs equals the number of entries of the assembled basis.
C2_DofCountsMatchGenerators ==
    phase = "live" =>
        /\ ClassDofs(1) = nterms[1]
        /\ ClassDofs(2) = nterms[2]
        /\ FlatDim = 3 => ClassDofs(3) = nterms[3]
        /\ Cardinality(DofPlaces) = BasisEntries

\* C3: after space_dimension() on a 2D element of degree d the value returned is
\* 4d + (2T(d-2) + d if d >= 2 else 0), the allocator's total DOF count is the same
\* number, and the order-0 basis holds twice as many scalar components.
C3_SpaceDimension2D ==
    (phase = "live" /\ call.op = "space_dimension" /\ FlatDim = 2) =>
        LET d == _degree
            N == 4 * d + (IF d >= 2 THEN 2 * (((d - 2) * (d - 1)) \div 2) + d ELSE 0)
        IN  /\ ret = N
            /\ Cardinality(DofPlaces) = N
            /\ ArrayLen(basis[<<0, 0>>]) = 2 * ret

C3_Witness ==
    /\ phase = "live" /\ call.op = "space_dimension"
    /\ ref_el = "interval*interval" /\ _degree = 3
    /\ ret = 17 /\ Cardinality(DofPlaces) = 17 /\ ArrayLen(basis[<<0, 0>>]) = 34

\* the DOF counts C4 states for one face and for the interior of a 3D cell
C4_FaceCount(d) ==
    IF d < 2 THEN 0
    ELSE IF d < 4 THEN 2 * (((d - 2) * (d - 1)) \div 2) + d
    ELSE 3 * d - 4

C4_InteriorCount(d) ==
    IF d < 4 THEN 0
    ELSE IF d = 4 THEN 6
    ELSE IF d = 5 THEN 11
    ELSE 6 + 3 * (d - 4) +
         SumSeq([n \in 1..(d - 4) |-> 3 * (((n + 1) * n) \div 2)])

\* C4: on every constructed 3D element of degree d the 12 edges hold d consecutive
\* DOFs each, in entity order from 0; the 6 faces follow in entity order with
\* C4_FaceCount(d) each; the interior follows with C4_InteriorCount(d); every
\* vertex holds the empty list.
C4_Allocation3D ==
    (phase = "live" /\ FlatDim = 3) =>
        LET d  == _degree
            nf == C4_FaceCount(d)
            ni == C4_InteriorCount(d)
        IN  /\ \A v \in 0..7 : FlatDofs(0, v) = <<>>
            /\ \A e \in 0..11 : FlatDofs(1, e) = [n \in 1..d |-> e * d + n - 1]
            /\ \A f \in 0..5 :
                   FlatDofs(2, f) = [n \in 1..nf |-> 12 * d + f * nf + n - 1]
            /\ FlatDofs(3, 0) = [n \in 1..ni |-> 12 * d + 6 * nf + n - 1]

C4_Witness ==
    /\ phase = "live" /\ ref_el = "quadrilateral*interval" /\ _degree = 6
    /\ Len(FlatDofs(1, 11)) = 6 /\ Len(FlatDofs(2, 5)) = 14
    /\ FlatDofs(3, 0)[1] = 156 /\ Len(FlatDofs(3, 0)) = 24

\* C5 (as stated): constructing the Face element on a 2D cell with degree >= 1
\* yields an element whose basis has as many entries as the Edge element's for the
\* same cell and degree, entry i being the Edge entry i rotated:
\* Face[i] = (-Edge[i][1], Edge[i][0]).
C5_FaceIsRotatedEdge2D ==
    (call.op = "Face" /\ call.args[2] >= 1
       /\ SumSeq(get_dimension(call.args[1])) = 2) =>
        /\ phase = "live"
        /\ LET E == TrimmedSerendipityEdge_init(call.args[1], call.args[2]).basis[<<0, 0>>]
               F == basis[<<0, 0>>]
           IN  /\ F.shape[1] = E.shape[1]
               /\ \A i \in 0..(E.shape[1] - 1) :
                      Row(F, i) = <<Neg(Row(E, i)[2]), Row(E, i)[1]>>

\* the steps of a constructor that build a blending factor or a basis term or
\* allocate a DOF
BuildingSteps ==
    {"get_vertices", "blending", "EL", "FL", "IL", "Array", "get_topology", "allocate",
     "make_entity_closure_ids", "FiniteElement.__init__", "compute_unflattening_map",
     "unflatten"}

\* C6: a constructor called with degree < 1 raises the invalid-configuration
\* Exception of its class having taken no step at all; called with degree >= 1 on a
\* cell of flattened dimension other than 2 and 3 it raises the dimension Exception
\* of its class having built no term and allocated no DOF; neither leaves an
\* instance with a basis or an entity-DOF map.
C6_EagerConfigurationErrors ==
    call.op \in {"Edge", "Face"} =>
        LET cell   == call.args[1]
            degree == call.args[2]
            who    == IF call.op = "Edge" THEN "Trimmed Serendipity_k edge elements"
                      ELSE "Trimmed serendipity face elements"
        IN  /\ degree < 1 =>
                 /\ phase = "failed"
                 /\ exc = [type |-> "Exception", msg |-> who \o " only valid for k >= 1"]
                 /\ steps = <<>>
                 /\ basis = <<>> /\ entity_ids = <<>>
            /\ (degree >= 1 /\ SumSeq(get_dimension(cell)) \notin {2, 3}) =>
                 /\ phase = "failed"
                 /\ exc = [type |-> "Exception",
                           msg  |-> who \o " only valid for dimensions 2 and 3"]
                 /\ \A n \in 1..Len(steps) : steps[n] \notin BuildingSteps
                 /\ basis = <<>> /\ entity_ids = <<>>

C6_Witness ==
    /\ call = [op |-> "Face", args |-> <<"quadrilateral*quadrilateral", 2>>]
    /\ phase = "failed"
    /\ exc.msg = "Trimmed serendipity face elements only valid for dimensions 2 and 3"
    /\ steps = <<"flatten_reference_cube", "get_spatial_dimension">>
    /\ basis = <<>> /\ entity_ids = <<>>

Unimplemented == {"get_nodal_basis", "get_dual_set", "get_coeffs", "dmats", "get_num_members"}

\* C7: every step that calls get_nodal_basis, get_dual_set, get_coeffs, dmats or
\* get_num_members on a constructed element ends in a NotImplementedError, which
\* is not the Exception class of the configuration errors, returns nothing, and
\* leaves the degree, the entity-DOF map and the derivative cache as they were.
C7_UnimplementedRaise ==
    [][call'.op \in Unimplemented =>
          /\ phase = "live"
          /\ exc'.type = "NotImplementedError"
          /\ exc'.type # "Exception"
          /\ ret' = <<>>
          /\ UNCHANGED <<_degree, entity_ids, basis>>]_vars

C7_Witness ==
    /\ phase = "live" /\ call.op = "get_num_members"
    /\ exc.type = "NotImplementedError"
    /\ DOMAIN basis = {<<0, 0>>, <<1, 0>>, <<0, 1>>}

\* C8: in every step each cached entry stays in the cache with the value it had
\* (the entry (0,0) of the constructor included), no multi-index that is cached is
\* differentiated, and no multi-index is ever differentiated more than once.
C8_CacheOnlyGrows ==
    [][/\ \A al \in DOMAIN basis : al \in DOMAIN basis' /\ basis'[al] = basis[al]
       /\ \A al \in DOMAIN basis \cap MultiIndices : ndiff'[al] = ndiff[al]
       /\ \A al \in MultiIndices : ndiff'[al] <= 1
       /\ ndiff'[<<0, 0>>] = 0]_vars

C8_Witness ==
    /\ phase = "live" /\ call.op = "tabulate" /\ call.args[1] = 0 /\ exc = NoExc
    /\ DOMAIN basis = {<<0, 0>>, <<1, 0>>, <<0, 1>>}
    /\ ndiff = [al \in MultiIndices |-> IF al = <<0, 0>> THEN 0 ELSE 1]

\* the result of tabulate(order, points, entity) on the element as constructed,
\* its cache holding the order-0 basis only
FirstCall(order, points, entity) ==
    tabulate([al \in {<<0, 0>>} |-> basis[<<0, 0>>]], ref_el, order, points, entity)

\* C9, history: whatever calls came before it, a tabulate call that returns
\* returns what the same call returns as the first call on the element, and agrees
\* on every common multi-index with the first call of any other order on the same
\* points and entity.
C9_HistoryIndependent ==
    (phase = "live" /\ call.op = "tabulate" /\ exc = NoExc) =>
        /\ FirstCall(call.args[1], call.args[2], call.args[3]).exc = NoExc
        /\ FirstCall(call.args[1], call.args[2], call.args[3]).phivals = ret
        /\ \A o \in 0..MaxOrder :
               LET r == FirstCall(o, call.args[2], call.args[3])
               IN  r.exc = NoExc =>
                       \A al \in DOMAIN ret \cap DOMAIN r.phivals : r.phivals[al] = ret[al]

\* C9, two calls in a row on the same points and entity, both returning: the
\* tables of every multi-index both return are equal, so equal arguments give equal
\* results and a lower order gives the restriction of a higher one, in either order.
C9_ConsecutiveAgree ==
    (/\ phase = "live" /\ call.op = "tabulate" /\ exc = NoExc
     /\ call'.op = "tabulate" /\ exc' = NoExc
     /\ call'.args[2] = call.args[2] /\ call'.args[3] = call.args[3]) =>
        /\ \A al \in DOMAIN ret \cap DOMAIN ret' : ret'[al] = ret[al]
        /\ call'.args[1] = call.args[1] => ret' = ret
        /\ call'.args[1] <= call.args[1] => DOMAIN ret' \subseteq DOMAIN ret

\* C9: tabulate is idempotent and cache-coherent.
C9_TabulateCoherent == [](C9_HistoryIndependent) /\ [][C9_ConsecutiveAgree]_vars

C9_Witness ==
    /\ phase = "live" /\ ref_el = "quadrilateral" /\ call.op = "tabulate" /\ exc = NoExc
    /\ call.args = <<0, <<(<<0, 0>>)>>, <<>>>>
    /\ DOMAIN basis = {<<0, 0>>, <<1, 0>>, <<0, 1>>}
    /\ DOMAIN ret = {<<0, 0>>}
    /\ ret[<<0, 0>>].val[1] = << <<0>>, <<0 - 1>> >>

\* C10 (as stated): every tabulate(order, points, entity) call returns a mapping
\* whose keys are exactly the multi-indices (a, b) with a + b <= order, each value
\* of shape (number of basis entries, 2, number of points); with the entity
\* omitted the points are transformed as for the entity (cell dimension, 0).
C10_TabulateReturnsEveryOrder ==
    (phase = "live" /\ call.op = "tabulate") =>
        LET order  == call.args[1]
            points == call.args[2]
        IN  /\ exc = NoExc
            /\ DOMAIN ret = {al \in (0..order) \X (0..order) : al[1] + al[2] <= order}
            /\ \A al \in DOMAIN ret : ret[al].shape = <<BasisEntries, 2, Len(points)>>
            /\ call.args[3] = <<>> =>
                  tpoints = [i \in 1..Len(points) |->
                                get_entity_transform(ref_el, get_dimension(ref_el), 0,
                                                     points[i])]

\* the blending factors and midpoint substitutes of the live element's cell
Verts == get_vertices(flatten_reference_cube(ref_el))

\* the shape of the 2D tilde family but for its length: two single-component
\* terms using P_{degree-2}, then coupled terms with both components non-zero,
\* and the family closes the order-0 basis
C11_TildeShape ==
    LET d   == _degree
        FLT == families.FLT
        dx  == blending(Verts, 0, "x")
        dy  == blending(Verts, 1, "y")
        Pxd == leg(d - 2, midpoint(Verts, 0, "x"))
        Pyd == leg(d - 2, midpoint(Verts, 1, "y"))
    IN  /\ Len(FLT) >= 2
        /\ FLT[1] = <<Mul(Pyd, Mul(dy[0], dy[1])), Zero>>
        /\ FLT[2] = <<Zero, Mul(Pxd, Mul(dx[0], dx[1]))>>
        /\ \A n \in 3..Len(FLT) : FLT[n][1] # Zero /\ FLT[n][2] # Zero
        /\ \A n \in 1..Len(FLT) : Row(basis[<<0, 0>>], BasisEntries - Len(FLT) + n - 1) = FLT[n]

\* C11 (as stated): on every constructed 2D element of degree >= 2 the tilde family
\* f_lambda_1_2d_tilde returned has exactly 2 + 2(degree-2) terms, two
\* single-component terms using P_{degree-2} followed by the coupled terms.
C11_TildeCountAsStated ==
    (phase = "live" /\ FlatDim = 2 /\ _degree >= 2) =>
        /\ Len(families.FLT) = 2 + 2 * (_degree - 2)
        /\ C11_TildeShape

\* C11 (amended): on every constructed 2D element of degree >= 2 the tilde family
\* f_lambda_1_2d_tilde returned has exactly 2 + (degree-2) = degree terms: two
\* single-component terms using P_{degree-2} followed by one coupled two-component
\* term for each k = 1..degree-2; they are the last rows of the order-0 basis.
C11_TildeCount ==
    (phase = "live" /\ FlatDim = 2 /\ _degree >= 2) =>
        /\ Len(families.FLT) = 2 + (_degree - 2)
        /\ C11_TildeShape

C11_Witness ==
    /\ phase = "live" /\ ref_el = "quadrilateral" /\ _degree = 4
    /\ Len(families.FLT) = 4
    /\ families.FLT[3][1] # Zero /\ families.FLT[4][2] # Zero
    /\ BasisEntries = 26

\* the triples (a, b, c) with a + b + c = n, a outermost, c innermost
C12_Triples(n) ==
    Concat([a1 \in 1..(n + 1) |->
               [b1 \in 1..(n - a1 + 2) |-> <<a1 - 1, b1 - 1, n - (a1 - 1) - (b1 - 1)>>]])

\* C12 (as stated): on every constructed 3D element of degree >= 4 the family
\* I_lambda_1_3d returned holds, for the triples (a, b, c) with a + b + c =
\* degree - 4 in nested-loop order, three terms each: P_a(x_mid) P_b(y_mid) P_c(z_mid)
\* times dy[0] dy[1] dz[0] dz[1] in the x component, times dx[0] dx[1] dz[0] dz[1]
\* in the y component, times dx[0] dx[1] dy[0] dy[1] in the z component, the other
\* components zero.
C12_InteriorTermsAsStated ==
    (phase = "live" /\ FlatDim = 3 /\ _degree >= 4) =>
        LET IL == families.IL
            T  == C12_Triples(_degree - 4)
            dx == blending(Verts, 0, "x")
            dy == blending(Verts, 1, "y")
            dz == blending(Verts, 2, "z")
            P(t) == Prod(<<leg(t[1], midpoint(Verts, 0, "x")),
                           leg(t[2], midpoint(Verts, 1, "y")),
                           leg(t[3], midpoint(Verts, 2, "z"))>>)
        IN  /\ Len(IL) = 3 * Len(T)
            /\ \A i \in 1..Len(T) :
                 /\ IL[3 * i - 2] = <<Prod(<<P(T[i]), dy[0], dy[1], dz[0], dz[1]>>), Zero, Zero>>
                 /\ IL[3 * i - 1] = <<Zero, Prod(<<P(T[i]), dx[0], dx[1], dz[0], dz[1]>>), Zero>>
                 /\ IL[3 * i]     = <<Zero, Zero, Prod(<<P(T[i]), dx[0], dx[1], dy[0], dy[1]>>)>>

\* the basis entries the DOFs dofs index are one edge family along the axis var:
\* the first has exactly one non-zero component, and the entry at position j+1 is
\* the first with P_j of the axis' midpoint variable in the place of P_0 = 1
C13_OneFamily(dofs, axis, var) ==
    LET A    == basis[<<0, 0>>]
        row0 == Row(A, dofs[1])
        Pj(j) == leg(j, midpoint(Verts, axis, var))
    IN  /\ Cardinality({c \in 1..Len(row0) : row0[c] # Zero}) = 1
        /\ \A j \in 0..(Len(dofs) - 1) :
               Row(A, dofs[j + 1]) = [c \in 1..Len(row0) |-> Mul(row0[c], Pj(j))]

\* C13 (as stated): on every constructed element, for every edge e of the flattened
\* cell, the `degree` DOFs listed for e index basis entries of one and the same
\* edge family (same non-zero component, same blending half-factors), one for each
\* Legendre degree j = 0..degree-1 in order.
C13_EdgeDofsIndexOneFamily ==
    phase = "live" =>
        \A e \in 0..(Len(FlatIds(flatten_reference_cube(ref_el), 1)) - 1) :
            /\ Len(FlatDofs(1, e)) = _degree
            /\ \/ C13_OneFamily(FlatDofs(1, e), 0, "x")
               \/ C13_OneFamily(FlatDofs(1, e), 1, "y")
               \/ FlatDim = 3 /\ C13_OneFamily(FlatDofs(1, e), 2, "z")

=============================================================================
